---- MODULE Spec2Model ----
(***************************************************************************)
(* Model of tsbb15_labs/lab2.py: gopimage (colour coding of a motion       *)
(* field) and image_grid (grid of images with shared or separate           *)
(* colorbars).                                                             *)
(*                                                                         *)
(* Numbers.  The model computes in exact real arithmetic; floating-point   *)
(* rounding is not modelled.  Array elements are complex numbers           *)
(* (re + i*im)/sqrt(d2) with integer re, im and d2 (d2 = 0 stands for      *)
(* NaN); real quantities are s*sqrt(n/d) with a sign s, or +inf, or NaN.   *)
(* Angles are counted in ticks of 2*pi/(TableSize*TicksPerStep); np.angle  *)
(* is modelled to the nearest tick.                                        *)
(***************************************************************************)
EXTENDS Integers, Sequences, FiniteSets

VARIABLES
  V,          \* gopimage: the caller's motion field array (may be written)
  V0,         \* gopimage: the values of that array when the call was made
  scale,      \* gopimage: the scale argument
  ax,         \* gopimage: the ax argument ("None" or "ax")
  gpc,        \* gopimage: "ready" | "done" | "raised"
  gerr,       \* gopimage: the exception raised, or "none"
  normalized, \* gopimage: whether line 118 divided by max_mag
  abs_w,      \* gopimage: local abs_w, one value per pixel
  angle_w,    \* gopimage: local angle_w, one angle per pixel
  angle_im,   \* gopimage: local angle_im, one RGB triple per pixel
  gopim,      \* gopimage: the image handed to imshow, or NoImage
  gfigs,      \* gopimage: figures created by plt.subplots()
  images,     \* image_grid: the images of the argument, in order
  is_dict,    \* image_grid: whether images was given as a dict
  nrows,      \* image_grid: the nrows argument
  ncols_arg,  \* image_grid: the ncols argument (NoneCols when absent)
  separate_colorbars, \* image_grid: the flag
  share_all,  \* image_grid: the flag
  pc,         \* image_grid: position in the function body
  names,      \* image_grid: local names (sequence)
  ncols,      \* image_grid: local ncols after lines 59-60
  norm,       \* image_grid: local norm (NoNorm is None)
  grid,       \* image_grid: the ImageGrid, [ngrids, cbar_mode, share_all]
  drawn,      \* image_grid: the imshow calls made so far, in order
  titles,     \* image_grid: the set_title calls made so far, in order
  colorbars,  \* image_grid: the cax.colorbar calls made so far, in order
  axes,       \* image_grid: local list axes
  returned,   \* image_grid: the returned list, or NotReturned
  err         \* image_grid: the exception raised, or "none"

gvars == <<V, V0, scale, ax, gpc, gerr, normalized, abs_w, angle_w, angle_im,
           gopim, gfigs>>
ivars == <<images, is_dict, nrows, ncols_arg, separate_colorbars, share_all,
           pc, names, ncols, norm, grid, drawn, titles, colorbars, axes,
           returned, err>>
vars == <<gvars, ivars>>

----------------------------------------------------------------------------
(* Bounds of the model *)

\* rows of a motion field range over 0..MaxRows
MaxRows == 1
\* columns of a motion field range over 1..MaxCols
MaxCols == 2

----------------------------------------------------------------------------
(* Numbers *)

Sq(x) == x * x
AbsInt(x) == IF x < 0 THEN -x ELSE x
Sign(x) == IF x < 0 THEN -1 ELSE IF x = 0 THEN 0 ELSE 1

\* a real number s*sqrt(n/d) ("fin"), s*infinity ("inf") or NaN ("nan")
Real(s, n, d) == [k |-> "fin", s |-> IF n = 0 THEN 0 ELSE s, n |-> n, d |-> d]
Rat(p, q) == Real(Sign(p), Sq(p), Sq(q))
Zero == Rat(0, 1)
One == Rat(1, 1)
Inf(s) == [k |-> "inf", s |-> s, n |-> 1, d |-> 0]
PosInf == Inf(1)
NegInf == Inf(-1)
NaN == [k |-> "nan", s |-> 0, n |-> 0, d |-> 0]

IsZero(x) == x.k = "fin" /\ x.s = 0
\* 0 <= x <= 1
InUnit(x) == x.k = "fin" /\ x.s >= 0 /\ x.n <= x.d
\* x < 0
IsNegative(x) == x.k \in {"fin", "inf"} /\ x.s < 0
\* x is finite
IsFinite(x) == x.k = "fin"

\* product of two reals (IEEE: 0*inf = NaN, anything*NaN = NaN)
Mul(x, y) ==
  IF x.k = "nan" \/ y.k = "nan" THEN NaN
  ELSE IF x.k = "inf" \/ y.k = "inf"
       THEN IF IsZero(x) \/ IsZero(y) THEN NaN
            ELSE Inf(x.s * y.s)
       ELSE Real(x.s * y.s, x.n * y.n, x.d * y.d)

\* a complex array element (re + i*im)/sqrt(d2); d2 = 0 is NaN
Cx(re, im) == [re |-> re, im |-> im, d2 |-> 1]
CxNaN == [re |-> 0, im |-> 0, d2 |-> 0]
CxIsNaN(w) == w.d2 = 0
\* equality of the values two elements stand for
CxEq(a, b) ==
  /\ ~CxIsNaN(a) /\ ~CxIsNaN(b)
  /\ Sign(a.re) = Sign(b.re) /\ Sign(a.im) = Sign(b.im)
  /\ Sq(a.re) * b.d2 = Sq(b.re) * a.d2
  /\ Sq(a.im) * b.d2 = Sq(b.im) * a.d2

----------------------------------------------------------------------------
(* gopimage: inputs *)

\* numpy dtypes of the arrays handed to gopimage
Dtypes == {"float64", "int64", "complex128", "complex64"}
ComplexDtypes == {"complex128", "complex64"}
\* np.complex is an alias of the builtin complex, i.e. complex128
NpComplex == "complex128"

\* values of a real component, and of a complex element
Comp == {-1, 0, 2}
RealElems == {Cx(c, 0) : c \in Comp}
ComplexElems == {Cx(0, 0), Cx(0, -1), Cx(2, 2)}
Elems(dtype) == IF dtype \in ComplexDtypes THEN ComplexElems ELSE RealElems

\* shapes (rows, cols) and (rows, cols, depth)
Shapes ==
  {<<r, c>> : r \in 0..MaxRows, c \in 1..MaxCols}
    \cup {<<r, c, d>> : r \in 0..MaxRows, c \in 1..MaxCols, d \in 1..3}
Depth(shape) == IF Len(shape) = 3 THEN shape[3] ELSE 1
NPix(shape) == shape[1] * shape[2]

\* An array: dtype, shape and data; data[i][j] is component j of pixel i
\* (row-major).  The arrays enumerated alternate between two pixel values a
\* and b; those of shape (rows, cols, 1) and (rows, cols, 3) are uniform.
FieldsOf(dtype, shape) ==
  LET Pixels == [1..Depth(shape) -> Elems(dtype)]
  IN  {[dtype |-> dtype, shape |-> shape,
        data |-> [i \in 1..NPix(shape) |-> IF i % 2 = 1 THEN ab[1] ELSE ab[2]]] :
          ab \in {x \in Pixels \X Pixels : Depth(shape) \in {1, 2} \/ x[1] = x[2]}}
Fields == UNION {FieldsOf(dt, sh) : dt \in Dtypes, sh \in Shapes}

\* scale arguments: -1, 0, 1/2, 1, 2, +inf, -inf, nan
Scales == {Rat(-1, 1), Rat(0, 1), Rat(1, 2), Rat(1, 1), Rat(2, 1),
           PosInf, NegInf, NaN}

NoImage == [shape |-> <<>>, data |-> <<>>]

----------------------------------------------------------------------------
(* gopimage: the computation *)

TableSize == 256
\* ticks per table step: angles are multiples of 2*pi/(TableSize*TicksPerStep)
TicksPerStep == 4
TwoPi == TableSize * TicksPerStep
Pi == TwoPi \div 2

GOPTABLE ==
  << <<72, 231, 36>>, <<69, 233, 38>>, <<66, 234, 41>>, <<63, 236, 43>>,
     <<60, 238, 46>>, <<57, 239, 49>>, <<54, 241, 52>>, <<52, 243, 55>>,
     <<50, 244, 59>>, <<47, 245, 62>>, <<45, 247, 65>>, <<43, 248, 69>>,
     <<42, 249, 73>>, <<40, 250, 76>>, <<38, 251, 80>>, <<37, 252, 84>>,
     <<36, 253, 88>>, <<35, 254, 92>>, <<34, 254, 96>>, <<34, 254, 101>>,
     <<33, 255, 105>>, <<33, 255, 110>>, <<33, 255, 114>>, <<33, 255, 119>>,
     <<33, 255, 123>>, <<34, 254, 128>>, <<34, 254, 133>>, <<35, 253, 137>>,
     <<36, 252, 142>>, <<37, 251, 147>>, <<39, 250, 151>>, <<40, 249, 156>>,
     <<42, 247, 161>>, <<44, 246, 166>>, <<46, 244, 170>>, <<49, 242, 175>>,
     <<51, 240, 180>>, <<54, 238, 184>>, <<56, 236, 189>>, <<59, 233, 193>>,
     <<62, 230, 197>>, <<66, 228, 202>>, <<69, 225, 206>>, <<73, 222, 210>>,
     <<76, 218, 213>>, <<80, 215, 217>>, <<84, 212, 221>>, <<88, 208, 224>>,
     <<92, 204, 228>>, <<96, 201, 231>>, <<100, 197, 234>>, <<105, 193, 237>>,
     <<109, 189, 239>>, <<113, 185, 242>>, <<118, 181, 244>>, <<122, 176, 246>>,
     <<127, 172, 248>>, <<131, 168, 250>>, <<136, 163, 251>>, <<140, 159, 252>>,
     <<144, 154, 253>>, <<149, 150, 254>>, <<153, 145, 255>>, <<157, 141, 255>>,
     <<161, 136, 255>>, <<165, 132, 255>>, <<169, 127, 255>>, <<173, 123, 254>>,
     <<177, 119, 253>>, <<181, 114, 252>>, <<184, 110, 251>>, <<187, 106, 250>>,
     <<191, 101, 248>>, <<194, 97, 246>>, <<197, 93, 244>>, <<200, 89, 242>>,
     <<202, 85, 239>>, <<205, 81, 237>>, <<207, 77, 234>>, <<209, 74, 231>>,
     <<211, 70, 228>>, <<213, 66, 224>>, <<214, 63, 221>>, <<216, 60, 217>>,
     <<217, 56, 213>>, <<218, 53, 210>>, <<219, 50, 206>>, <<220, 47, 202>>,
     <<221, 45, 197>>, <<222, 42, 193>>, <<222, 39, 189>>, <<223, 37, 184>>,
     <<223, 34, 180>>, <<223, 32, 175>>, <<223, 30, 170>>, <<223, 28, 166>>,
     <<223, 26, 161>>, <<223, 24, 156>>, <<222, 22, 151>>, <<222, 20, 147>>,
     <<222, 19, 142>>, <<221, 17, 137>>, <<221, 16, 133>>, <<221, 15, 128>>,
     <<220, 13, 123>>, <<220, 12, 119>>, <<220, 11, 114>>, <<219, 10, 110>>,
     <<219, 9, 105>>, <<219, 9, 101>>, <<218, 8, 96>>, <<218, 7, 92>>,
     <<218, 6, 88>>, <<218, 6, 84>>, <<218, 5, 80>>, <<218, 5, 76>>,
     <<218, 5, 73>>, <<218, 4, 69>>, <<219, 4, 65>>, <<219, 4, 62>>,
     <<219, 4, 59>>, <<220, 4, 55>>, <<221, 4, 52>>, <<221, 4, 49>>,
     <<222, 4, 46>>, <<223, 4, 43>>, <<224, 4, 41>>, <<225, 4, 38>>,
     <<226, 5, 36>>, <<227, 5, 33>>, <<228, 5, 31>>, <<229, 6, 29>>,
     <<230, 6, 27>>, <<231, 7, 25>>, <<233, 7, 23>>, <<234, 8, 22>>,
     <<235, 9, 20>>, <<236, 10, 18>>, <<238, 11, 17>>, <<239, 11, 16>>,
     <<240, 12, 14>>, <<241, 13, 13>>, <<243, 15, 12>>, <<244, 16, 11>>,
     <<245, 17, 10>>, <<246, 18, 9>>, <<247, 20, 8>>, <<248, 21, 7>>,
     <<249, 23, 7>>, <<250, 24, 6>>, <<251, 26, 5>>, <<251, 28, 5>>,
     <<252, 29, 4>>, <<253, 31, 4>>, <<253, 33, 3>>, <<254, 35, 3>>,
     <<254, 37, 3>>, <<254, 39, 2>>, <<255, 41, 2>>, <<255, 44, 2>>,
     <<255, 46, 2>>, <<255, 48, 1>>, <<255, 51, 1>>, <<255, 53, 1>>,
     <<255, 56, 1>>, <<255, 58, 1>>, <<254, 61, 1>>, <<254, 63, 1>>,
     <<254, 66, 0>>, <<253, 69, 0>>, <<253, 72, 0>>, <<252, 74, 0>>,
     <<252, 77, 0>>, <<251, 80, 0>>, <<251, 83, 0>>, <<250, 85, 0>>,
     <<250, 88, 0>>, <<249, 91, 0>>, <<249, 94, 0>>, <<248, 97, 0>>,
     <<247, 100, 0>>, <<247, 102, 0>>, <<246, 105, 0>>, <<245, 108, 0>>,
     <<245, 111, 0>>, <<244, 113, 0>>, <<243, 116, 0>>, <<243, 119, 0>>,
     <<242, 121, 0>>, <<241, 124, 0>>, <<241, 126, 0>>, <<240, 129, 0>>,
     <<239, 131, 0>>, <<238, 133, 0>>, <<238, 136, 0>>, <<237, 138, 0>>,
     <<236, 140, 0>>, <<235, 142, 0>>, <<234, 144, 0>>, <<233, 146, 0>>,
     <<233, 148, 0>>, <<232, 150, 0>>, <<231, 152, 0>>, <<229, 154, 0>>,
     <<228, 156, 0>>, <<227, 157, 0>>, <<226, 159, 0>>, <<224, 160, 0>>,
     <<223, 162, 0>>, <<221, 163, 0>>, <<220, 165, 0>>, <<218, 166, 0>>,
     <<216, 168, 0>>, <<215, 169, 0>>, <<213, 170, 0>>, <<211, 172, 0>>,
     <<208, 173, 0>>, <<206, 174, 1>>, <<204, 175, 1>>, <<201, 176, 1>>,
     <<199, 178, 1>>, <<196, 179, 1>>, <<194, 180, 1>>, <<191, 181, 1>>,
     <<188, 182, 2>>, <<185, 183, 2>>, <<182, 185, 2>>, <<179, 186, 2>>,
     <<175, 187, 3>>, <<172, 188, 3>>, <<169, 189, 3>>, <<165, 191, 4>>,
     <<161, 192, 4>>, <<158, 193, 5>>, <<154, 195, 5>>, <<150, 196, 6>>,
     <<147, 197, 7>>, <<143, 199, 7>>, <<139, 200, 8>>, <<135, 202, 9>>,
     <<131, 203, 10>>, <<127, 205, 11>>, <<123, 207, 12>>, <<120, 208, 13>>,
     <<116, 210, 14>>, <<112, 212, 16>>, <<108, 213, 17>>, <<104, 215, 18>>,
     <<100, 217, 20>>, <<97, 219, 22>>, <<93, 220, 23>>, <<89, 222, 25>>,
     <<86, 224, 27>>, <<82, 226, 29>>, <<79, 227, 31>>, <<75, 229, 33>> >>

\* lines 102-111: which branch the input takes
Branch(v) ==
  IF Len(v.shape) = 2 /\ v.dtype = NpComplex THEN "complex"
  ELSE IF Len(v.shape) = 3 /\ v.shape[3] = 2 THEN "real"
  ELSE "invalid"

\* complex sum and product by 1j, as in Vx + 1j * Vy
CxAdd(a, b) == Cx(a.re + b.re, a.im + b.im)
CxTimesJ(a) == Cx(-a.im, a.re)

\* lines 102-109: W, one element per pixel
ComplexRepresentation(v) ==
  IF Branch(v) = "complex"
  THEN [i \in 1..NPix(v.shape) |-> v.data[i][1]]
  ELSE [i \in 1..NPix(v.shape) |->
          CxAdd(v.data[i][1], CxTimesJ(v.data[i][2]))]

\* |w| squared as the pair <<numerator, denominator>>
Abs2(w) == <<Sq(w.re) + Sq(w.im), w.d2>>
\* np.abs
NpAbs(w) == IF CxIsNaN(w) THEN NaN ELSE Real(1, Abs2(w)[1], Abs2(w)[2])
\* x <= y for finite non-negative reals
Leq(x, y) == x.n * y.d <= y.n * x.d

\* line 114: np.max(np.abs(W)) of a non-empty W
MaxMag(W) ==
  LET A == {NpAbs(W[i]) : i \in 1..Len(W)}
  IN  CHOOSE m \in A : \A x \in A : Leq(x, m)

\* element / max_mag (IEEE: division by zero gives NaN or inf parts, which
\* the model folds into NaN)
CxDiv(w, m) ==
  IF CxIsNaN(w) \/ m.k # "fin" \/ IsZero(m) THEN CxNaN
  ELSE IF w.re = 0 /\ w.im = 0 THEN w
  ELSE [re |-> w.re * m.d, im |-> w.im * m.d, d2 |-> w.d2 * m.n * m.d]
DivideAll(W, m) == [i \in 1..Len(W) |-> CxDiv(W[i], m)]

\* lines 117-118 without the test of max_mag
NormalizeUnguarded(W) == [W |-> DivideAll(W, MaxMag(W)), divided |-> TRUE]

\* lines 117-118: if not max_mag == 0: W /= max_mag
Normalize(W) ==
  IF ~ IsZero(MaxMag(W))
  THEN [W |-> DivideAll(W, MaxMag(W)), divided |-> TRUE]
  ELSE [W |-> W, divided |-> FALSE]

\* arctan(p/q) for 0 <= p <= q, 0 < q, in millionths of a turn
ArctanMicroTurns(p, q) ==
  CASE p = 0 -> 0
    [] p = q -> 125000
    [] 6 * p = 1 * q -> 26284
    [] 5 * p = 1 * q -> 31416
    [] 4 * p = 1 * q -> 38990
    [] 3 * p = 1 * q -> 51208
    [] 5 * p = 2 * q -> 60559
    [] 2 * p = 1 * q -> 73792
    [] 5 * p = 3 * q -> 86010
    [] 3 * p = 2 * q -> 93584
    [] 4 * p = 3 * q -> 102416
    [] 5 * p = 4 * q -> 107388
    [] 6 * p = 5 * q -> 110571
\* the same in ticks, to the nearest tick
ArctanTicks(p, q) == (2 * ArctanMicroTurns(p, q) * TwoPi + 1000000) \div 2000000

\* atan2(y, x) in ticks for y # 0
Atan2Ticks(y, x) ==
  LET ay == AbsInt(y)
      axx == AbsInt(x)
      first == IF ay <= axx THEN ArctanTicks(ay, axx)
               ELSE (Pi \div 2) - ArctanTicks(axx, ay)
      upper == IF x < 0 THEN Pi - first ELSE first
  IN  IF y > 0 THEN upper ELSE -upper

\* an angle in ticks, or NaN
Tick(t) == [k |-> "fin", t |-> t]
TickNaN == [k |-> "nan", t |-> 0]

\* np.angle(-w) for an element w whose zero parts are +0.0: the parts of -w
\* that are zero are -0.0, and atan2(-0.0, x) is -pi for x <= -0.0, -0.0 else
AngleOfNegated(w) ==
  IF CxIsNaN(w) THEN TickNaN
  ELSE IF w.im = 0 THEN (IF w.re >= 0 THEN Tick(-Pi) ELSE Tick(0))
  ELSE Tick(Atan2Ticks(-w.im, -w.re))

\* np.clip(a, lo, hi); NaN stays NaN
NpClip(a, lo, hi) ==
  IF a.k = "nan" THEN a
  ELSE IF a.t < lo THEN Tick(lo) ELSE IF a.t > hi THEN Tick(hi) ELSE a

\* line 127: angle_w of one element
AngleW(w) ==
  LET a == AngleOfNegated(w)
  IN  NpClip(IF a.k = "nan" THEN a ELSE Tick(Pi + a.t), 0, TwoPi)

\* np.minimum(1, x); NaN stays NaN
NpMinimum1(x) ==
  IF x.k = "nan" THEN x
  ELSE IF x.k = "inf" THEN (IF x.s > 0 THEN One ELSE x)
  ELSE IF x.s > 0 /\ x.n > x.d THEN One ELSE x

\* line 126 without the clipping at 1
AbsWUnclipped(sc, w) == Mul(sc, NpAbs(w))

\* line 126: abs_w of one element
AbsW(sc, w) == NpMinimum1(Mul(sc, NpAbs(w)))

\* line 121: the table with entry 0 appended
Gtab == Append(GOPTABLE, GOPTABLE[1])

\* line 122: gtab_angles[i] in ticks, i = 0..TableSize
GtabAngles(i) == i * TicksPerStep

\* the table's values are multiples of 1/ColourUnit
ColourUnit == 256

\* lines 123 and 129: whether interp1d accepts x_new (bounds_error)
InRange(a) == a.k = "nan" \/ (GtabAngles(0) <= a.t /\ a.t <= GtabAngles(TableSize))

\* lines 123 and 129: the linear interpolant's value for an accepted x_new
CmapTable(a) ==
  IF a.k = "nan" THEN [c \in 1..3 |-> NaN]
  ELSE
    LET up == (a.t + TicksPerStep - 1) \div TicksPerStep   \* searchsorted
        hi == IF up < 1 THEN 1 ELSE IF up > TableSize THEN TableSize ELSE up
        lo == hi - 1
        step == GtabAngles(hi) - GtabAngles(lo)
    IN  [c \in 1..3 |->
           Rat(Gtab[lo + 1][c] * step
                 + (Gtab[hi + 1][c] - Gtab[lo + 1][c]) * (a.t - GtabAngles(lo)),
               ColourUnit * step)]

\* line 131: one pixel of gopim, np.atleast_3d(abs_w) * angle_im
GopPixel(a, rgb) == [c \in 1..3 |-> Mul(a, rgb[c])]

\* the array the caller holds after W /= max_mag (line 118) on W = V
WrittenBack(v, W) ==
  [v EXCEPT !.data = [i \in 1..Len(W) |-> [j \in 1..1 |-> W[i]]]]

\* lines 103 and 109: whether W is the caller's array itself
Aliased(v) == Branch(v) = "complex"

\* what a call that raised leaves behind
Raised(v, e, divided, aw, an) ==
  [V |-> v, pc |-> "raised", err |-> e, divided |-> divided,
   abs_w |-> aw, angle_w |-> an, angle_im |-> <<>>, gopim |-> NoImage,
   figs |-> 0]

\* gopimage(V, scale, ax): what the call leaves behind
GopCall(v, sc, a) ==
  LET W0 == ComplexRepresentation(v)
      nz == Normalize(W0)
      W == nz.W
      after == IF Aliased(v) /\ nz.divided THEN WrittenBack(v, W) ELSE v
      aw == [i \in 1..Len(W) |-> AbsW(sc, W[i])]
      an == [i \in 1..Len(W) |-> AngleW(W[i])]
      im == [i \in 1..Len(W) |-> CmapTable(an[i])]
  IN  IF Branch(v) = "invalid"
      THEN Raised(v, "ValueError: Input must be", FALSE, <<>>, <<>>)
      ELSE IF NPix(v.shape) = 0
      THEN Raised(v, "ValueError: zero-size array", FALSE, <<>>, <<>>)
      ELSE IF \E i \in 1..Len(W) : ~ InRange(an[i])
      THEN Raised(after, "ValueError: interpolation range", nz.divided, aw, an)
      ELSE [V |-> after, pc |-> "done", err |-> "none",
            divided |-> nz.divided,
            abs_w |-> aw, angle_w |-> an, angle_im |-> im,
            gopim |-> [shape |-> <<v.shape[1], v.shape[2], 3>>,
                       data |-> [i \in 1..Len(W) |-> GopPixel(aw[i], im[i])]],
            figs |-> IF a = "None" THEN 1 ELSE 0]

GopInit ==
  /\ V \in Fields
  /\ V0 = V
  /\ scale \in Scales
  /\ ax \in {"None", "ax"}
  /\ gpc = "ready"
  /\ gerr = "none"
  /\ normalized = FALSE
  /\ abs_w = <<>>
  /\ angle_w = <<>>
  /\ angle_im = <<>>
  /\ gopim = NoImage
  /\ gfigs = 0

GopIdle ==
  /\ V = [dtype |-> "float64", shape |-> <<0, 1>>, data |-> <<>>]
  /\ V0 = V
  /\ scale = One
  /\ ax = "None"
  /\ gpc = "idle"
  /\ gerr = "none"
  /\ normalized = FALSE
  /\ abs_w = <<>>
  /\ angle_w = <<>>
  /\ angle_im = <<>>
  /\ gopim = NoImage
  /\ gfigs = 0

\* the call gopimage(V, scale, ax)
Gopimage ==
  /\ gpc = "ready"
  /\ LET r == GopCall(V, scale, ax)
     IN  /\ V' = r.V
         /\ gpc' = r.pc
         /\ gerr' = r.err
         /\ normalized' = r.divided
         /\ abs_w' = r.abs_w
         /\ angle_w' = r.angle_w
         /\ angle_im' = r.angle_im
         /\ gopim' = r.gopim
         /\ gfigs' = r.figs
  /\ UNCHANGED <<V0, scale, ax>>

----------------------------------------------------------------------------
(* image_grid: inputs *)

\* at most MaxPanels images are handed to image_grid
MaxPanels == 3

\* the images: 1 x 2 arrays, row-major
PanelSet == {<<0, 10>>, <<5, 20>>, <<7, 7>>}
\* names[i] = NoName is None; the key of the i-th entry of a dict is i
NoName == 0
\* the images of a list, or the values of a dict in insertion order
ImageArgs ==
  UNION {[1..n -> PanelSet] : n \in 0..MaxPanels}
\* nrows arguments, and ncols arguments (NoneCols is None)
NoneCols == -1
NRowsArgs == {0, 1, 2}
NColsArgs == {NoneCols, 0, 1, 2}

NoNorm == [k |-> "None", vmin |-> 0, vmax |-> 0]
NoGrid == [ngrids |-> 0, cbar_mode |-> "none", share_all |-> FALSE]
NotReturned == <<-1>>

----------------------------------------------------------------------------
(* image_grid: the computation *)

Range(s) == {s[i] : i \in 1..Len(s)}
Min2(a, b) == IF a <= b THEN a ELSE b
SetMin(S) == CHOOSE x \in S : \A y \in S : x <= y
SetMax(S) == CHOOSE x \in S : \A y \in S : y <= x

\* np.min(im), np.max(im)
NpMin(im) == SetMin(Range(im))
NpMax(im) == SetMax(Range(im))

\* line 65 taking the first image only
VMinFirstOnly(ims) == NpMin(ims[1])

\* line 65: min(np.min(im) for im in images), images not empty
VMin(ims) == SetMin({NpMin(ims[i]) : i \in 1..Len(ims)})

\* line 66: max(np.max(im) for im in images), images not empty
VMax(ims) == SetMax({NpMax(ims[i]) : i \in 1..Len(ims)})

\* line 60 with floor division (len(images) // nrows)
FloorDiv(count, rows) == count \div rows

\* line 60: int(np.ceil(len(images) / nrows)) for nrows > 0
CeilDiv(count, rows) ==
  IF count % rows = 0 THEN count \div rows ELSE (count \div rows) + 1

\* line 70 with 'each' in both modes
CbarModeEach(sep) == "each"

\* line 70: cbar_mode
CbarMode(sep) == IF sep THEN "each" ELSE "single"

\* ImageGrid: ax.cax of the i-th axes (one colorbar axes for the whole grid
\* in mode 'single', one per axes in mode 'each')
Cax(g, i) == IF g.cbar_mode = "single" THEN 1 ELSE i

\* line 74: the number of iterations of zip(grid, names, images)
ZipLen == Min2(grid.ngrids, Min2(Len(names), Len(images)))

GridInit ==
  /\ is_dict \in BOOLEAN
  /\ images \in ImageArgs
  /\ nrows \in NRowsArgs
  /\ ncols_arg \in NColsArgs
  /\ separate_colorbars \in BOOLEAN
  /\ share_all \in BOOLEAN
  /\ pc = "names"
  /\ names = <<>>
  /\ ncols = ncols_arg
  /\ norm = NoNorm
  /\ grid = NoGrid
  /\ drawn = <<>>
  /\ titles = <<>>
  /\ colorbars = <<>>
  /\ axes = <<>>
  /\ returned = NotReturned
  /\ err = "none"

GridIdle ==
  /\ is_dict = FALSE
  /\ images = <<>>
  /\ nrows = 1
  /\ ncols_arg = NoneCols
  /\ separate_colorbars = FALSE
  /\ share_all = FALSE
  /\ pc = "idle"
  /\ names = <<>>
  /\ ncols = ncols_arg
  /\ norm = NoNorm
  /\ grid = NoGrid
  /\ drawn = <<>>
  /\ titles = <<>>
  /\ colorbars = <<>>
  /\ axes = <<>>
  /\ returned = NotReturned
  /\ err = "none"

\* lines 54-57: names (and images.values()) of a dict, [None] * len of a list
StepNames ==
  /\ pc = "names"
  /\ names' = [i \in 1..Len(images) |-> IF is_dict THEN i ELSE NoName]
  /\ pc' = "ncols"
  /\ UNCHANGED <<images, is_dict, nrows, ncols_arg, separate_colorbars,
                 share_all, ncols, norm, grid, drawn, titles, colorbars, axes,
                 returned, err>>

\* lines 59-60: if not ncols: ncols = int(np.ceil(len(images) / nrows))
StepNcols ==
  /\ pc = "ncols"
  /\ IF ncols = NoneCols \/ ncols = 0
     THEN IF nrows = 0
          THEN /\ err' = "ZeroDivisionError"
               /\ pc' = "raised"
               /\ UNCHANGED ncols
          ELSE /\ ncols' = CeilDiv(Len(images), nrows)
               /\ pc' = "norm"
               /\ UNCHANGED err
     ELSE /\ pc' = "norm"
          /\ UNCHANGED <<ncols, err>>
  /\ UNCHANGED <<images, is_dict, nrows, ncols_arg, separate_colorbars,
                 share_all, names, norm, grid, drawn, titles, colorbars, axes,
                 returned>>

\* lines 62-67: norm
StepNorm ==
  /\ pc = "norm"
  /\ IF separate_colorbars
     THEN /\ norm' = NoNorm
          /\ pc' = "grid"
          /\ UNCHANGED err
     ELSE IF Len(images) = 0
          THEN /\ err' = "ValueError: min() arg is an empty sequence"
               /\ pc' = "raised"
               /\ UNCHANGED norm
          ELSE /\ norm' = [k |-> "Normalize", vmin |-> VMin(images),
                           vmax |-> VMax(images)]
               /\ pc' = "grid"
               /\ UNCHANGED err
  /\ UNCHANGED <<images, is_dict, nrows, ncols_arg, separate_colorbars,
                 share_all, names, ncols, grid, drawn, titles, colorbars, axes,
                 returned>>

\* lines 69-71: the figure and ImageGrid(fig, 111, (nrows, ncols), ...), which
\* holds nrows * ncols axes in row-major order.  The constructor ends by
\* taking the lower-left axes, axes_column[0][-1], which raises IndexError
\* when the grid has no axes.
StepGrid ==
  /\ pc = "grid"
  /\ IF nrows * ncols > 0
     THEN /\ grid' = [ngrids |-> nrows * ncols,
                      cbar_mode |-> CbarMode(separate_colorbars),
                      share_all |-> share_all]
          /\ pc' = "loop"
          /\ UNCHANGED err
     ELSE /\ err' = "IndexError"
          /\ pc' = "raised"
          /\ UNCHANGED grid
  /\ UNCHANGED <<images, is_dict, nrows, ncols_arg, separate_colorbars,
                 share_all, names, ncols, norm, drawn, titles, colorbars, axes,
                 returned>>

\* lines 74-80: one iteration of the loop over zip(grid, names, images)
StepDraw ==
  /\ pc = "loop"
  /\ Len(axes) < ZipLen
  /\ LET i == Len(axes) + 1
     IN  /\ drawn' = Append(drawn, [ax |-> i, index |-> i, im |-> images[i],
                                 norm |-> norm])
         /\ titles' = IF names[i] # NoName
                      THEN Append(titles, [ax |-> i, name |-> names[i]])
                      ELSE titles
         /\ colorbars' = Append(colorbars, [cax |-> Cax(grid, i), handle |-> i])
         /\ axes' = Append(axes, i)
  /\ UNCHANGED <<images, is_dict, nrows, ncols_arg, separate_colorbars,
                 share_all, pc, names, ncols, norm, grid, returned, err>>

\* line 82: return axes, once zip is exhausted
StepReturn ==
  /\ pc = "loop"
  /\ Len(axes) >= ZipLen
  /\ returned' = axes
  /\ pc' = "done"
  /\ UNCHANGED <<images, is_dict, nrows, ncols_arg, separate_colorbars,
                 share_all, names, ncols, norm, grid, drawn, titles, colorbars,
                 axes, err>>

----------------------------------------------------------------------------
(* Specifications *)

\* gopimage called once on an input drawn from Fields x Scales
InitGop == GopInit /\ GridIdle
GopNext == Gopimage /\ UNCHANGED ivars
SpecGop == InitGop /\ [][GopNext]_vars

\* image_grid called once on an input drawn from the argument sets
InitGrid == GridInit /\ GopIdle
GridNext ==
  \/ StepNames /\ UNCHANGED gvars
  \/ StepNcols /\ UNCHANGED gvars
  \/ StepNorm /\ UNCHANGED gvars
  \/ StepGrid /\ UNCHANGED gvars
  \/ StepDraw /\ UNCHANGED gvars
  \/ StepReturn /\ UNCHANGED gvars
SpecGrid == InitGrid /\ [][GridNext]_vars

----------------------------------------------------------------------------
(* Properties of gopimage (checked under SpecGop) *)

GopReturned == gpc \in {"done", "raised"}
\* the input passes lines 102-111
Accepted == Branch(V0) # "invalid"
\* the error of line 111
ShapeError == gerr = "ValueError: Input must be"
\* a finite scale >= 0
ValidScale == IsFinite(scale) /\ ~ IsNegative(scale)
\* the caller's array holds the values it held when the call was made
CallerArrayUnchanged ==
  \A i \in 1..Len(V0.data) : \A j \in 1..Len(V0.data[i]) :
     CxEq(V.data[i][j], V0.data[i][j])
AllZeroField ==
  \A i \in 1..Len(V0.data) : \A j \in 1..Len(V0.data[i]) :
     V0.data[i][j].re = 0 /\ V0.data[i][j].im = 0
\* the two forms the documentation names
RealForm == V0.dtype \notin ComplexDtypes /\ Len(V0.shape) = 3 /\ V0.shape[3] = 2
ComplexForm == V0.dtype \in ComplexDtypes /\ Len(V0.shape) = 2
ImagePixels == 1..Len(gopim.data)

\* C1: after any call that accepted its input, the caller's motion field
\* holds the values it held before the call.
C1_CallerFieldNotMutated ==
  (GopReturned /\ Accepted) => CallerArrayUnchanged

\* C4: on an accepted field, a negative or non-finite scale ends the call in
\* an error and no image is computed or drawn.
C4_InvalidScaleRejected ==
  (GopReturned /\ Accepted /\ ~ ValidScale) =>
     (gpc = "raised" /\ gopim = NoImage)

\* C5: the call is rejected with the shape error exactly when the input is
\* neither a real (rows, cols, 2) array nor a complex (rows, cols) array.
C5_ExactlyTwoFormsAccepted ==
  GopReturned => (ShapeError <=> ~ (RealForm \/ ComplexForm))

\* C8: for an accepted field and a finite scale >= 0 the table lookup never
\* fails and a non-empty field yields an image; the image has shape
\* (rows, cols, 3); per pixel the intensity abs_w lies in [0, 1], the hue
\* angle lies in [0, 2*pi], the table colour lies in [0, 1], and so does
\* every channel of the image.
C8_ImageShapeAndRange ==
  (GopReturned /\ Accepted /\ ValidScale) =>
     /\ gerr # "ValueError: interpolation range"
     /\ NPix(V0.shape) > 0 => gpc = "done"
     /\ gpc = "done" =>
          /\ gopim.shape = <<V0.shape[1], V0.shape[2], 3>>
          /\ Len(gopim.data) = V0.shape[1] * V0.shape[2]
          /\ \A i \in ImagePixels :
               /\ InUnit(abs_w[i])
               /\ angle_w[i].k = "fin" /\ 0 <= angle_w[i].t /\ angle_w[i].t <= TwoPi
               /\ \A c \in 1..3 : InUnit(angle_im[i][c]) /\ InUnit(gopim.data[i][c])

\* C8 witness: a field with two different magnitudes encoded with scale 2,
\* so that the clipping at 1 acts, and a pixel that is not black.
C8_Witness ==
  /\ gpc = "done" /\ Accepted /\ scale = Rat(2, 1) /\ normalized
  /\ NPix(V0.shape) = 2
  /\ \E i \in ImagePixels : \E c \in 1..3 : ~ IsZero(gopim.data[i][c])
  /\ \E i \in ImagePixels : \A c \in 1..3 : IsZero(gopim.data[i][c])

\* C9: for an all-zero accepted field and a finite scale >= 0 the division by
\* max_mag is skipped, a non-empty field yields an image, and the image is
\* zero in every channel of every pixel.
C9_ZeroFieldBlackImage ==
  (GopReturned /\ Accepted /\ ValidScale /\ AllZeroField) =>
     /\ ~ normalized
     /\ NPix(V0.shape) > 0 => gpc = "done"
     /\ gpc = "done" =>
          \A i \in ImagePixels : \A c \in 1..3 : IsZero(gopim.data[i][c])

\* C9 witness: an all-zero field of two pixels in the complex form, encoded.
C9_Witness ==
  /\ gpc = "done" /\ AllZeroField /\ ValidScale /\ ~ IsZero(scale)
  /\ Branch(V0) = "complex" /\ Len(gopim.data) = 2

----------------------------------------------------------------------------
(* Properties of image_grid (checked under SpecGrid) *)

Count == Len(images)
\* the raw values of all panels
AllValues == UNION {Range(images[i]) : i \in 1..Len(images)}
\* ncols is supplied (line 59 takes ncols = 0 for an absent ncols)
NcolsSupplied == ncols_arg \notin {NoneCols, 0}
\* nrows < 1, or a supplied ncols with ncols * nrows < count
ImpossibleLayout ==
  nrows < 1 \/ (NcolsSupplied /\ ncols_arg * nrows < Count)

\* C2: with an empty collection and ncols absent the call raises no error
\* and returns an empty list, in both colorbar modes.
C2_EmptyCollectionReturnsEmpty ==
  (Count = 0 /\ nrows >= 1 /\ ncols_arg = NoneCols) =>
     /\ pc # "raised"
     /\ pc = "done" => returned = <<>>

\* C3: with an impossible layout the call never returns a list.
C3_ImpossibleLayoutRejected ==
  ImpossibleLayout => pc # "done"

\* C6: in shared mode, once anything is drawn the normalization is the
\* minimum and maximum over the raw values of all panels, and every panel
\* drawn so far was drawn with that normalization.
C6_SharedNormBeforeDrawing ==
  (~ separate_colorbars /\ drawn # <<>>) =>
     /\ norm.k = "Normalize"
     /\ norm.vmin \in AllValues /\ norm.vmax \in AllValues
     /\ \A x \in AllValues : norm.vmin <= x /\ x <= norm.vmax
     /\ \A i \in 1..Len(drawn) : drawn[i].norm = norm

\* C6 witness: two panels of different ranges, both drawn in shared mode;
\* the first panel alone spans neither end of the shared range.
C6_Witness ==
  /\ ~ separate_colorbars /\ pc = "done" /\ Len(drawn) = 2
  /\ images[1] = <<7, 7>> /\ images[2] = <<5, 20>>
  /\ drawn[1].norm = [k |-> "Normalize", vmin |-> 5, vmax |-> 20]

\* C7 as stated: in shared mode exactly one colorbar attachment is made
\* during a call that returns.
C7_ExactlyOneColorbarCall ==
  (~ separate_colorbars /\ pc = "done") => Len(colorbars) = 1

\* C7 amended: in shared mode every colorbar attachment goes to the one
\* colorbar axes of the grid, and one attachment is made per panel drawn.
C7_OneSharedColorbarAxes ==
  ~ separate_colorbars =>
     /\ \A i \in 1..Len(colorbars) : colorbars[i].cax = 1
     /\ Len(colorbars) = Len(drawn)
     /\ pc = "done" => Len(colorbars) = Min2(Count, nrows * ncols)

\* C7 witness: a call in shared mode that drew three panels and returned.
C7_Witness ==
  ~ separate_colorbars /\ pc = "done" /\ Len(colorbars) = 3

\* C10: with ncols absent, nrows >= 1 and at least one panel, the computed
\* grid holds every panel, and the call draws every panel once, in input
\* order on the axes in row-major order, and returns one handle per panel.
C10_ComputedColumnsFitAll ==
  (ncols_arg = NoneCols /\ nrows >= 1 /\ Count >= 1) =>
     /\ pc \in {"norm", "grid", "loop", "done"} =>
          (nrows * ncols >= Count /\ nrows * (ncols - 1) < Count)
     /\ pc # "raised"
     /\ pc = "done" =>
          /\ Len(drawn) = Count
          /\ \A i \in 1..Count :
               drawn[i].index = i /\ drawn[i].ax = i /\ drawn[i].im = images[i]
          /\ returned = [i \in 1..Count |-> i]

\* C10 witness: three panels on two rows, ncols absent: two columns.
C10_Witness ==
  /\ ncols_arg = NoneCols /\ nrows = 2 /\ Count = 3 /\ pc = "done"
  /\ ncols = 2 /\ Len(returned) = 3

====
